---- MODULE Spec2Model ----
(***************************************************************************)
(* Model of package errgo (src/errgo.go): stacked errors.                  *)
(*                                                                         *)
(* The built-in type is `type diagnosis []error`.  A Go slice is a header  *)
(* (array, len) over a backing array whose length is the slice's capacity  *)
(* (every slice this package makes starts at index 0 of its array), so the *)
(* model keeps the backing arrays in `heap` and lets a diagnosis value be  *)
(* the header.  append writes in place when len < cap and allocates        *)
(* otherwise; that sharing is what several of the properties are about.    *)
(***************************************************************************)
EXTENDS Integers, Sequences, FiniteSets, TLC

\* Bounds of the model.
MaxRegs == 5        \* Diagnosis values the calling program keeps
MaxLayers == 3      \* layers of the Diagnosis a single call is applied to
MaxShared == 3      \* layers of the ancestor two goroutines wrap concurrently

VARIABLES
    heap,   \* backing arrays: heap[a] is array a, Len(heap[a]) its capacity
    regs,   \* the Diagnosis values the caller keeps, in order of creation
    rem,    \* the remaining Diagnosis the latest Unwrap returned (or nil)
    ret,    \* single-call scenario: the call made and what it returned
    prov,   \* history: prov[i] is the call that produced regs[i]
    snap,   \* history: snap[i] is what regs[i] held when it was returned
    peel,   \* history: the latest Unwrap and the run of Unwraps it belongs to
    thr     \* concurrent scenario: the two goroutines

vars == <<heap, regs, rem, ret, prov, snap, peel, thr>>

---------------------------------------------------------------------------
\* Values of Go type `error`.

NilErr == [kind |-> "nil"]
Plain(e) == [kind |-> "plain", id |-> e]
Diag(a, n) == [kind |-> "diagnosis", arr |-> a, len |-> n]
Custom(ls) == [kind |-> "custom", layers |-> ls]

\* err.(Diagnosis): the dynamic type has Error, Cause, Wrap and Unwrap.
IsDiagnosis(v) == v.kind \in {"diagnosis", "custom"}

\* err.(AllUnwrapper): only the built-in type has UnwrapAll.
IsAllUnwrapper(v) == v.kind = "diagnosis"

\* e.Error() on an element: a nil interface has no method to call; a nil
\* pointer inside a non-nil interface (a torn write) is dereferenced.
ErrorOf(e) ==
    IF e.kind = "plain"
    THEN [panic |-> FALSE, msg |-> <<"msg", e.id>>]
    ELSE [panic |-> TRUE, msg |-> <<>>]

---------------------------------------------------------------------------
\* Slices.

Cap(h, d) == Len(h[d.arr])

\* len(d) elements of d's array: what ranging over d reads.
Contents(h, d) == SubSeq(h[d.arr], 1, d.len)

\* The capacity growslice picks (gc runtime, capacities below 256).
GrowCap(oldcap, newlen) == IF newlen > 2 * oldcap THEN newlen ELSE 2 * oldcap

\* A fresh zeroed array of capacity c holding xs.
MakeArray(xs, c) == [i \in 1..c |-> IF i <= Len(xs) THEN xs[i] ELSE NilErr]

\* Mutant: append never reuses the array (copy on append).
HasSpare_never(h, d) == FALSE

\* append's test for room in the backing array.
HasSpare(h, d) == d.len < Cap(h, d)

\* append(d, err)
append(h, d, err) ==
    IF HasSpare(h, d)
    THEN [heap |-> [h EXCEPT ![d.arr][d.len + 1] = err],
          diag |-> Diag(d.arr, d.len + 1)]
    ELSE [heap |-> Append(h, MakeArray(Append(Contents(h, d), err),
                                       GrowCap(Cap(h, d), d.len + 1))),
          diag |-> Diag(Len(h) + 1, d.len + 1)]

---------------------------------------------------------------------------
\* Methods of the built-in diagnosis.

diagnosis_Error(h, d) ==
    IF d.len > 0 THEN ErrorOf(h[d.arr][d.len])
    ELSE [panic |-> FALSE, msg |-> <<>>]

\* Mutant: Cause reads the newest layer.
diagnosis_Cause_newest(h, d) == IF d.len > 0 THEN h[d.arr][d.len] ELSE NilErr

diagnosis_Cause(h, d) == IF d.len > 0 THEN h[d.arr][1] ELSE NilErr

\* Mutant: Wrap puts the annotation in front, append(diagnosis{err}, d...).
diagnosis_Wrap_front(h, d, err) ==
    [heap |-> Append(h, MakeArray(<<err>> \o Contents(h, d), d.len + 1)),
     diag |-> Diag(Len(h) + 1, d.len + 1)]

diagnosis_Wrap(h, d, err) == append(h, d, err)

\* Mutant: Unwrap without `case 1`, so one layer leaves an empty remainder.
diagnosis_Unwrap_nocase1(h, d) ==
    CASE d.len = 0 -> [diag |-> NilErr, err |-> NilErr]
      [] OTHER -> [diag |-> Diag(d.arr, d.len - 1), err |-> h[d.arr][d.len]]

\* Mutant: Unwrap hands out the oldest layer, d[0], as the annotation.
diagnosis_Unwrap_oldest(h, d) ==
    CASE d.len = 0 -> [diag |-> NilErr, err |-> NilErr]
      [] d.len = 1 -> [diag |-> NilErr, err |-> h[d.arr][1]]
      [] OTHER -> [diag |-> Diag(d.arr, d.len - 1), err |-> h[d.arr][1]]

diagnosis_Unwrap(h, d) ==
    CASE d.len = 0 -> [diag |-> NilErr, err |-> NilErr]
      [] d.len = 1 -> [diag |-> NilErr, err |-> h[d.arr][1]]
      [] OTHER -> [diag |-> Diag(d.arr, d.len - 1), err |-> h[d.arr][d.len]]

diagnosis_UnwrapAll(h, d) == Contents(h, d)

---------------------------------------------------------------------------
\* A third-party implementation of the Diagnosis interface that keeps its
\* layers by value and honours the interface's contract.

custom_Error(c) ==
    IF Len(c.layers) > 0 THEN ErrorOf(c.layers[Len(c.layers)])
    ELSE [panic |-> FALSE, msg |-> <<>>]

custom_Cause(c) == IF Len(c.layers) > 0 THEN c.layers[1] ELSE NilErr

custom_Wrap(c, err) == Custom(Append(c.layers, err))

custom_Unwrap(c) ==
    CASE Len(c.layers) = 0 -> [diag |-> NilErr, err |-> NilErr]
      [] Len(c.layers) = 1 -> [diag |-> NilErr, err |-> c.layers[1]]
      [] OTHER -> [diag |-> Custom(SubSeq(c.layers, 1, Len(c.layers) - 1)),
                   err |-> c.layers[Len(c.layers)]]

\* Interface method calls: dispatch on the dynamic type.
CallError(h, d) ==
    IF d.kind = "diagnosis" THEN diagnosis_Error(h, d) ELSE custom_Error(d)

CallCause(h, d) ==
    IF d.kind = "diagnosis" THEN diagnosis_Cause(h, d) ELSE custom_Cause(d)

CallWrap(h, d, err) ==
    IF d.kind = "diagnosis" THEN diagnosis_Wrap(h, d, err)
    ELSE [heap |-> h, diag |-> custom_Wrap(d, err)]

CallUnwrap(h, d) ==
    IF d.kind = "diagnosis" THEN diagnosis_Unwrap(h, d) ELSE custom_Unwrap(d)

---------------------------------------------------------------------------
\* The package's functions.

\* Mutant: New makes its slice with room for an annotation,
\* append(make(diagnosis, 0, 2), err).
New_spare(h, err) ==
    IF IsDiagnosis(err) THEN [heap |-> h, diag |-> err]
    ELSE [heap |-> Append(h, <<err, NilErr>>), diag |-> Diag(Len(h) + 1, 1)]

\* Mutant: New boxes whatever it is given.
New_box(h, err) == [heap |-> Append(h, <<err>>), diag |-> Diag(Len(h) + 1, 1)]

\* New: a Diagnosis is returned as it is, anything else becomes diagnosis{err}.
New(h, err) ==
    IF IsDiagnosis(err) THEN [heap |-> h, diag |-> err]
    ELSE [heap |-> Append(h, <<err>>), diag |-> Diag(Len(h) + 1, 1)]

Cause(h, err) == IF IsDiagnosis(err) THEN CallCause(h, err) ELSE err

\* Wrap: New(err).Wrap(annotation)
Wrap(h, err, annotation) ==
    LET n == New(h, err) IN CallWrap(n.heap, n.diag, annotation)

Unwrap(h, err) ==
    IF IsDiagnosis(err) THEN CallUnwrap(h, err)
    ELSE [diag |-> NilErr, err |-> err]

\* reverse: swap err[i], err[j] while i < j (Go indexes from 0).
RECURSIVE reverseLoop(_, _, _)
reverseLoop(err, i, j) ==
    IF i < j
    THEN reverseLoop([err EXCEPT ![i + 1] = err[j + 1], ![j + 1] = err[i + 1]],
                     i + 1, j - 1)
    ELSE err

reverse(err) == reverseLoop(err, 0, Len(err) - 1)

\* The loop of UnwrapAll's Diagnosis case: for d != nil { d, err = d.Unwrap();
\* errs = append(errs, err) }.  calls counts the Unwrap calls made.
RECURSIVE unwrapLoop(_, _, _, _)
unwrapLoop(h, d, errs, calls) ==
    IF d # NilErr
    THEN LET u == CallUnwrap(h, d)
         IN unwrapLoop(h, u.diag, Append(errs, u.err), calls + 1)
    ELSE [errs |-> errs, calls |-> calls]

UnwrapAllCalls(h, err) ==
    CASE err = NilErr -> [errs |-> <<>>, calls |-> 0]
      [] IsAllUnwrapper(err) -> [errs |-> diagnosis_UnwrapAll(h, err), calls |-> 0]
      [] IsDiagnosis(err) ->
            LET l == unwrapLoop(h, err, <<>>, 0)
            IN [errs |-> reverse(l.errs), calls |-> l.calls]
      [] OTHER -> [errs |-> <<err>>, calls |-> 0]

UnwrapAll(h, err) == UnwrapAllCalls(h, err).errs

---------------------------------------------------------------------------
\* The calling program: a single goroutine that keeps the Diagnosis values
\* New and Wrap return and calls New, Wrap and Unwrap on them, on the
\* remainder the latest Unwrap returned, and on its own plain errors.

\* The layers a Diagnosis value holds now.
Layers(h, d) == IF d.kind = "diagnosis" THEN Contents(h, d) ELSE d.layers

\* The layers `err` stands for when it is passed to Wrap or Unwrap.
LayersOfArg(h, err) == IF IsDiagnosis(err) THEN Layers(h, err) ELSE <<err>>

\* The error the caller makes for the call that produces the next kept value.
\* The package never compares or inspects the errors it is given (it only
\* stores them and, in Error, asks the newest for its message), so the caller
\* is modelled making a new plain error for each call: error i goes into the
\* call that makes regs[i].
Fresh == Plain(Len(regs) + 1)

\* The Diagnosis values the caller can pass as `err`: the remainder the latest
\* Unwrap returned (src 0) or a kept value (src i).  root is the error the
\* value was first made from.
ArgSet ==
    {[src |-> i, v |-> regs[i], root |-> prov[i].root] : i \in 1..Len(regs)}
    \cup (IF rem # NilErr THEN {[src |-> 0, v |-> rem, root |-> peel.root]} ELSE {})

NoRun == [orig |-> <<>>, k |-> 0, got |-> <<>>]

NoPeel == [run |-> NoRun, root |-> NilErr, rlen |-> 0, remsnap |-> <<>>]

Keep(d, h, call) ==
    /\ regs' = Append(regs, d)
    /\ snap' = Append(snap, Layers(h, d))
    /\ prov' = Append(prov, call)

Init ==
    /\ heap = <<>>
    /\ regs = <<>>
    /\ rem = NilErr
    /\ ret = [op |-> "none"]
    /\ prov = <<>>
    /\ snap = <<>>
    /\ peel = NoPeel
    /\ thr = <<>>

\* d := New(e), e not a Diagnosis
DoNew(e) ==
    LET r == New(heap, e) IN
    /\ Len(regs) < MaxRegs
    /\ heap' = r.heap
    /\ Keep(r.diag, r.heap,
            [op |-> "New", src |-> -1, ann |-> e, root |-> e, rlen |-> 0])
    /\ UNCHANGED <<rem, ret, peel, thr>>

\* d := Wrap(err, annotation); with err a Diagnosis this is err.Wrap(annotation)
DoWrap(a, annotation) ==
    LET r == Wrap(heap, a.v, annotation) IN
    /\ Len(regs) < MaxRegs
    /\ heap' = r.heap
    /\ Keep(r.diag, r.heap,
            [op |-> "Wrap", src |-> a.src, ann |-> annotation, root |-> a.root,
             rlen |-> Len(LayersOfArg(heap, a.v))])
    /\ peel' = [peel EXCEPT !.run = NoRun]
    /\ UNCHANGED <<rem, ret, thr>>

\* rem, e := Unwrap(err); with err a Diagnosis this is err.Unwrap()
DoUnwrap(a) ==
    LET u == Unwrap(heap, a.v)
        before == LayersOfArg(heap, a.v)
        goon == a.src = 0 /\ peel.run.k > 0
    IN
    /\ rem' = u.diag
    /\ peel' = [run |-> [orig |-> IF goon THEN peel.run.orig ELSE before,
                         k |-> IF goon THEN peel.run.k + 1 ELSE 1,
                         got |-> IF goon THEN Append(peel.run.got, u.err)
                                 ELSE <<u.err>>],
                root |-> a.root,
                rlen |-> Len(before),
                remsnap |-> IF u.diag = NilErr THEN <<>> ELSE Layers(heap, u.diag)]
    /\ UNCHANGED <<heap, regs, ret, prov, snap, thr>>

Next ==
    \/ \E e \in {Fresh, NilErr} : DoNew(e)
    \/ \E a \in ArgSet : DoWrap(a, Fresh)
    \/ \E a \in ArgSet : DoUnwrap(a)

Spec == Init /\ [][Next]_vars

---------------------------------------------------------------------------
\* The single-call scenario: one call of the package on one value.  The value
\* is nil, a plain error, a Diagnosis of a third-party type, or a built-in
\* Diagnosis that the package itself built, by New and Wrap calls, and then
\* peeled by Unwrap calls.

\* The errors and annotations of this scenario: nil and two plain errors.
CallElems == {NilErr, Plain(1), Plain(2)}

RECURSIVE SeqsUpTo(_, _)
SeqsUpTo(S, n) ==
    IF n = 0 THEN {<<>>}
    ELSE LET T == SeqsUpTo(S, n - 1)
         IN T \cup {Append(t, x) : t \in T, x \in S}

\* Wrap(... Wrap(New(xs[1]), xs[2]) ..., xs[n]), from an empty heap.
RECURSIVE BuildChain(_)
BuildChain(xs) ==
    IF Len(xs) = 1 THEN New(<<>>, xs[1])
    ELSE LET b == BuildChain(SubSeq(xs, 1, Len(xs) - 1))
         IN Wrap(b.heap, b.diag, xs[Len(xs)])

\* The remainder after m Unwrap calls.
RECURSIVE Peeled(_, _, _)
Peeled(h, d, m) == IF m = 0 THEN d ELSE Peeled(h, Unwrap(h, d).diag, m - 1)

Inputs ==
    {[heap |-> <<>>, arg |-> e, peeled |-> 0] : e \in CallElems}
    \cup {[heap |-> <<>>, arg |-> Custom(ls), peeled |-> 0] :
             ls \in SeqsUpTo(CallElems, MaxLayers)}
    \cup UNION {
           {[heap |-> BuildChain(xs).heap,
             arg |-> Peeled(BuildChain(xs).heap, BuildChain(xs).diag, m),
             peeled |-> m] : m \in 0..(Len(xs) - 1)} :
           xs \in SeqsUpTo(CallElems, MaxLayers) \ {<<>>}}

InitCalls ==
    /\ \E in \in Inputs :
        /\ heap = in.heap
        /\ ret = [op |-> "input", arg |-> in.arg, peeled |-> in.peeled]
    /\ regs = <<>>
    /\ rem = NilErr
    /\ prov = <<>>
    /\ snap = <<>>
    /\ peel = NoPeel
    /\ thr = <<>>

Called(r) ==
    /\ ret.op = "input"
    /\ ret' = r @@ [arg |-> ret.arg, peeled |-> ret.peeled, pre |-> heap]
    /\ UNCHANGED <<regs, rem, prov, snap, peel, thr>>

ApplyNew ==
    LET r == New(heap, ret.arg) IN
    /\ Called([op |-> "New", diag |-> r.diag])
    /\ heap' = r.heap

ApplyCause ==
    /\ Called([op |-> "Cause", err |-> Cause(heap, ret.arg)])
    /\ heap' = heap

ApplyWrap(annotation) ==
    LET r == Wrap(heap, ret.arg, annotation) IN
    /\ Called([op |-> "Wrap", ann |-> annotation, diag |-> r.diag])
    /\ heap' = r.heap

ApplyUnwrap ==
    LET u == Unwrap(heap, ret.arg) IN
    /\ Called([op |-> "Unwrap", diag |-> u.diag, err |-> u.err])
    /\ heap' = heap

ApplyUnwrapAll ==
    LET r == UnwrapAllCalls(heap, ret.arg) IN
    /\ Called([op |-> "UnwrapAll", list |-> r.errs, calls |-> r.calls])
    /\ heap' = heap

\* d.Error(), a method: d is a Diagnosis.
ApplyError ==
    LET r == CallError(heap, ret.arg) IN
    /\ IsDiagnosis(ret.arg)
    /\ Called([op |-> "Error", panic |-> r.panic, msg |-> r.msg])
    /\ heap' = heap

NextCalls ==
    \/ ApplyNew
    \/ ApplyCause
    \/ \E annotation \in CallElems : ApplyWrap(annotation)
    \/ ApplyUnwrap
    \/ ApplyUnwrapAll
    \/ ApplyError

SpecCalls == InitCalls /\ [][NextCalls]_vars

---------------------------------------------------------------------------
\* The concurrent scenario: two goroutines, without synchronization, each
\* call Wrap once on a Diagnosis derived (by Unwrap calls) from one ancestor
\* that New and Wrap built.  append's accesses to the shared array are not
\* atomic: an interface value is two words, its type word and its data word,
\* and the goroutines' word accesses interleave.

\* The two words of an interface value; 0 is the nil pointer.
Tab(e) == IF e.kind = "torn" THEN e.tab ELSE e.kind

Data(e) == CASE e.kind = "plain" -> e.id
             [] e.kind = "torn" -> e.data
             [] OTHER -> 0

\* The interface value two words make: nil, a plain error, or a mix of the
\* words of a nil and of a plain error.
Words(tab, data) ==
    CASE tab = "nil" /\ data = 0 -> NilErr
      [] tab = "plain" /\ data # 0 -> Plain(data)
      [] OTHER -> [kind |-> "torn", tab |-> tab, data |-> data]

SetWord(e, word, from) ==
    IF word = "tab" THEN Words(Tab(from), Data(e)) ELSE Words(Tab(e), Data(from))

Threads == {1, 2}

InitRace ==
    /\ \E n \in 1..MaxShared :
        LET b == BuildChain([i \in 1..n |-> Plain(i)]) IN
        /\ heap = b.heap
        /\ regs = <<b.diag>>
        /\ \E m \in [Threads -> 0..(n - 1)],
              anns \in [Threads -> BOOLEAN] :
              thr = [t \in Threads |->
                       [pc |-> "start",
                        d |-> Peeled(b.heap, b.diag, m[t]),
                        ann |-> IF anns[t] THEN Plain(n + t) ELSE NilErr,
                        todo |-> {},
                        new |-> 0,
                        w |-> 0,
                        res |-> NilErr]]
    /\ rem = NilErr
    /\ ret = [op |-> "none"]
    /\ prov = <<>>
    /\ snap = <<>>
    /\ peel = NoPeel

\* append reads len and cap from the slice header it was passed and either
\* goes on to store in place or allocates a zeroed array to copy into.
WrapStart(t) ==
    LET d == thr[t].d IN
    /\ thr[t].pc = "start"
    /\ IF HasSpare(heap, d)
       THEN /\ thr' = [thr EXCEPT ![t].pc = "store", ![t].todo = {"tab", "data"}]
            /\ heap' = heap
       ELSE /\ thr' = [thr EXCEPT ![t].pc = "copy", ![t].new = Len(heap) + 1]
            /\ heap' = Append(heap, MakeArray(<<>>, GrowCap(Cap(heap, d), d.len + 1)))
    /\ UNCHANGED <<regs, rem, ret, prov, snap, peel>>

\* In place: one word of d[len] = err is written; after both, Wrap returns.
WrapStoreWord(t, word) ==
    LET d == thr[t].d
        left == thr[t].todo \ {word}
    IN
    /\ thr[t].pc = "store"
    /\ word \in thr[t].todo
    /\ heap' = [heap EXCEPT ![d.arr][d.len + 1] = SetWord(@, word, thr[t].ann)]
    /\ thr' = [thr EXCEPT ![t].todo = left,
                          ![t].pc = IF left = {} THEN "done" ELSE "store",
                          ![t].res = IF left = {} THEN Diag(d.arr, d.len + 1)
                                     ELSE NilErr]
    /\ UNCHANGED <<regs, rem, ret, prov, snap, peel>>

\* Growing: the old elements are copied a word at a time.
WrapCopyWord(t) ==
    LET d == thr[t].d
        i == (thr[t].w \div 2) + 1
        word == IF thr[t].w % 2 = 0 THEN "tab" ELSE "data"
    IN
    /\ thr[t].pc = "copy"
    /\ thr[t].w < 2 * d.len
    /\ heap' = [heap EXCEPT ![thr[t].new][i] = SetWord(@, word, heap[d.arr][i])]
    /\ thr' = [thr EXCEPT ![t].w = @ + 1]
    /\ UNCHANGED <<regs, rem, ret, prov, snap, peel>>

\* Growing: the annotation goes into the new array, which no one else has.
WrapCopyDone(t) ==
    LET d == thr[t].d IN
    /\ thr[t].pc = "copy"
    /\ thr[t].w = 2 * d.len
    /\ heap' = [heap EXCEPT ![thr[t].new][d.len + 1] = thr[t].ann]
    /\ thr' = [thr EXCEPT ![t].pc = "done", ![t].res = Diag(thr[t].new, d.len + 1)]
    /\ UNCHANGED <<regs, rem, ret, prov, snap, peel>>

NextRace ==
    \/ \E t \in Threads : WrapStart(t)
    \/ \E t \in Threads, word \in {"tab", "data"} : WrapStoreWord(t, word)
    \/ \E t \in Threads : WrapCopyWord(t)
    \/ \E t \in Threads : WrapCopyDone(t)

SpecRace == InitRace /\ [][NextRace]_vars

---------------------------------------------------------------------------
\* Properties of the calling program (specification Spec).

\* The program so far is d := New(e0) with e0 a plain error, then
\* d = d.Wrap(e1), d = d.Wrap(e2), ..., each applied to the previous result
\* (Unwrap calls change nothing and may have been made in between).
LinearChain ==
    /\ Len(regs) >= 1
    /\ prov[1].op = "New"
    /\ prov[1].ann.kind = "plain"
    /\ \A k \in 2..Len(regs) : prov[k].op = "Wrap" /\ prov[k].src = k - 1

\* e0, e1, ..., en of that program.
ChainArgs == [k \in 1..Len(regs) |-> prov[k].ann]

\* C1: after New(e0) and Wrap(e1), ..., Wrap(en), each applied to the previous
\* result, UnwrapAll of the last result is <<e0, e1, ..., en>>: the cause at
\* index 0, the newest annotation last, n+1 elements.
C1_ChainUnwrapAll ==
    LinearChain =>
        /\ UnwrapAll(heap, regs[Len(regs)]) = ChainArgs
        /\ Len(UnwrapAll(heap, regs[Len(regs)])) = Len(regs)

\* A chain of four whose last Wrap wrote into the spare capacity of the
\* array the third value already used.
C1_Witness ==
    /\ LinearChain
    /\ Len(regs) >= 4
    /\ regs[4].arr = regs[3].arr
    /\ UnwrapAll(heap, regs[4]) = SubSeq(ChainArgs, 1, 4)

\* C2: Cause(e) = e for a plain error e, and every Diagnosis derived from
\* New(e) by Wrap and Unwrap calls still has cause e, whatever has since been
\* wrapped onto values that share its backing array.
C2_CauseInvariant ==
    /\ Cause(heap, Fresh) = Fresh
    /\ \A i \in 1..Len(regs) : Cause(heap, regs[i]) = prov[i].root
    /\ rem # NilErr => Cause(heap, rem) = peel.root

\* A kept value whose newest layer has been overwritten through a shared
\* array and whose cause is still the error it was made from.
C2_Witness ==
    \E i \in 1..Len(regs) :
        /\ Layers(heap, regs[i]) # snap[i]
        /\ prov[i].root.kind = "plain"
        /\ Cause(heap, regs[i]) = prov[i].root

\* C3: k consecutive Unwrap calls, each on the remainder the one before
\* returned, starting from a Diagnosis holding orig = <<e0, ..., en>>, return
\* en, e(n-1), ... in that order; while k <= n the remainder is present and
\* holds <<e0, ..., e(n-k)>>, and call n+1, on <<e0>>, returns no Diagnosis
\* and e0.
C3_PeelOrder ==
    LET orig == peel.run.orig
        k == peel.run.k
        got == peel.run.got
    IN k > 0 =>
        /\ k <= Len(orig)
        /\ got = [j \in 1..k |-> orig[Len(orig) - j + 1]]
        /\ IF k < Len(orig)
           THEN /\ rem # NilErr
                /\ Layers(heap, rem) = SubSeq(orig, 1, Len(orig) - k)
           ELSE rem = NilErr

\* Three layers peeled to the end: the third call returned no Diagnosis.
C3_Witness ==
    /\ peel.run.k = 3
    /\ Len(peel.run.orig) = 3
    /\ rem = NilErr
    /\ peel.run.got[3] = peel.run.orig[1]

\* C4: a Diagnosis handed to the caller by New, Wrap or Unwrap holds, after
\* any later Wrap and Unwrap calls, the layers it held when it was returned.
C4_NeverMutated ==
    /\ \A i \in 1..Len(regs) : Layers(heap, regs[i]) = snap[i]
    /\ rem # NilErr => Layers(heap, rem) = peel.remsnap

\* The program so far is base := New(e0); a := base.Wrap(eA);
\* b := base.Wrap(eB), and nothing has been wrapped since.
TwoWrapsOfNew ==
    /\ Len(regs) = 3
    /\ prov[1].op = "New" /\ prov[1].ann.kind = "plain"
    /\ prov[2].op = "Wrap" /\ prov[2].src = 1
    /\ prov[3].op = "Wrap" /\ prov[3].src = 1

\* C8: after base := New(e0); a := base.Wrap(eA); b := base.Wrap(eB) the
\* three values hold <<e0>>, <<e0, eA>> and <<e0, eB>>.
C8_FreshWrapsIndependent ==
    TwoWrapsOfNew =>
        /\ UnwrapAll(heap, regs[1]) = <<prov[1].ann>>
        /\ UnwrapAll(heap, regs[2]) = <<prov[1].ann, prov[2].ann>>
        /\ UnwrapAll(heap, regs[3]) = <<prov[1].ann, prov[3].ann>>

C8_Witness ==
    /\ TwoWrapsOfNew
    /\ prov[2].ann # prov[3].ann
    /\ UnwrapAll(heap, regs[2]) # UnwrapAll(heap, regs[3])

\* C10: every built-in Diagnosis the caller holds has at least one layer:
\* New returns one layer, Wrap one more than its receiver had, Unwrap a
\* present remainder only for a receiver of two or more layers, and no call
\* was made on a receiver without layers.
C10_NonEmpty ==
    /\ \A i \in 1..Len(regs) :
        /\ regs[i].len >= 1
        /\ prov[i].op = "New" => regs[i].len = 1
        /\ prov[i].op = "Wrap" =>
              prov[i].rlen >= 1 /\ Len(snap[i]) = prov[i].rlen + 1
    /\ rem # NilErr => rem.len >= 1 /\ peel.rlen >= 2
    /\ peel # NoPeel => peel.rlen >= 1

\* Unwrap of a one-layer Diagnosis returned no remainder.
C10_Witness ==
    /\ peel.rlen = 1
    /\ peel.run.k >= 1
    /\ rem = NilErr
    /\ Len(regs) >= 2

---------------------------------------------------------------------------
\* Properties of a single call (specification SpecCalls).

\* C5: New returns a value that is already a Diagnosis (built-in or of a
\* third-party type) as it is: the same value, nothing allocated, no layer
\* added, so UnwrapAll(New(d)) = UnwrapAll(d); a non-Diagnosis e becomes the
\* one-element built-in Diagnosis <<e>>, and New of that result is the result.
C5_NewIdempotent ==
    ret.op = "New" =>
        /\ New(heap, ret.diag) = [heap |-> heap, diag |-> ret.diag]
        /\ IF IsDiagnosis(ret.arg)
           THEN /\ ret.diag = ret.arg
                /\ heap = ret.pre
                /\ UnwrapAll(heap, ret.diag) = UnwrapAll(ret.pre, ret.arg)
           ELSE /\ ret.diag.kind = "diagnosis"
                /\ Layers(heap, ret.diag) = <<ret.arg>>

\* New was called on a third-party Diagnosis of two or more layers.
C5_Witness ==
    /\ ret.op = "New"
    /\ ret.arg.kind = "custom"
    /\ Len(ret.arg.layers) >= 2
    /\ ret.diag = ret.arg

\* C6: for a Diagnosis of a third-party type holding <<e0, ..., e(n-1)>>, any
\* n >= 0, UnwrapAll returns exactly <<e0, ..., e(n-1)>>, n elements, oldest
\* first, after at most n Unwrap calls.
C6_PeelAgreesWithDirect ==
    (ret.op = "UnwrapAll" /\ ret.arg.kind = "custom") =>
        /\ ret.list = ret.arg.layers
        /\ Len(ret.list) = Len(ret.arg.layers)

\* C7: for a Diagnosis of one or more layers built with New and Wrap from
\* errors that may be nil, Error() does not fail and returns the message of
\* the newest layer.
C7_ErrorTotal ==
    (ret.op = "Error" /\ ret.arg.kind = "diagnosis" /\ ret.peeled = 0) =>
        /\ ~ret.panic
        /\ ret.msg = ErrorOf(Layers(heap, ret.arg)[ret.arg.len]).msg

---------------------------------------------------------------------------
\* Properties of the concurrent scenario (specification SpecRace).

BothDone == \A t \in Threads : thr[t].pc = "done"

\* The newest layer of the Diagnosis goroutine t's Wrap returned.
Newest(t) == heap[thr[t].res.arr][thr[t].res.len]

\* Both receivers are the same slice of the ancestor's array, and the array
\* has room after it.
SharedSpare ==
    /\ thr[1].d = thr[2].d
    /\ thr[1].d.len < Cap(heap, thr[1].d)

\* C9: when two goroutines call Wrap without synchronization on Diagnoses
\* that share the ancestor's array where it has spare capacity, both calls
\* write the same slot of that array: the two results are one and the same
\* slice, its newest layer is made of the words of the two annotations, and
\* with different annotations at least one goroutine's result does not hold
\* the annotation that goroutine passed.
C9_RaceSharedSlot ==
    (BothDone /\ SharedSpare) =>
        /\ thr[1].res = thr[2].res
        /\ thr[1].res.arr = thr[1].d.arr
        /\ Tab(Newest(1)) \in {Tab(thr[1].ann), Tab(thr[2].ann)}
        /\ Data(Newest(1)) \in {Data(thr[1].ann), Data(thr[2].ann)}
        /\ thr[1].ann # thr[2].ann =>
              \E t \in Threads : Newest(t) # thr[t].ann

\* Both calls wrote the same slot and goroutine 1's result holds goroutine
\* 2's annotation.
C9_Witness ==
    /\ BothDone
    /\ SharedSpare
    /\ thr[1].ann.kind = "plain"
    /\ thr[2].ann.kind = "plain"
    /\ Newest(1) = thr[2].ann
    /\ Newest(1) # thr[1].ann

====
